---- MODULE Spec2Model ----
(***************************************************************************)
(* Momentum indicator engine of stock-tech-momentum                        *)
(* (src/src/app/processor.py): compute_indicators and analyze_momentum.    *)
(*                                                                         *)
(* A float is modelled as NaN, +inf, -inf or an exact fraction n/d in      *)
(* lowest terms: IEEE-754 special values are kept (x/0 = +-inf, 0/0 = NaN, *)
(* inf - inf = NaN), rounding and the sign of zero are not.  A cell that   *)
(* is not a number is Str; arithmetic on it raises, as pandas does on an   *)
(* object column.                                                          *)
(***************************************************************************)
EXTENDS Integers, Sequences, FiniteSets, TLC

\* ------------------------------------------------------------------ bounds
\* Prices are the integers 0..MaxPrice.
MaxPrice == 2
\* Batches of at most ShortLen rows are analysed at every length.
ShortLen == 2
\* The longest batch.
MaxLen == 36

\* ------------------------------------------------------- program constants
RSI_WINDOW == 14
EMA_FAST == 12
EMA_SLOW == 26
EMA_SIGNAL == 9
STOCH_WINDOW == 14
STOCH_D_WINDOW == 3
ROC_PERIODS == 12
MOMENTUM_PERIODS == 10
TSI_LONG == 25
TSI_SHORT == 13
AO_FAST == 5
AO_SLOW == 34
CCI_WINDOW == 20
CMO_WINDOW == 14
UO_SHORT == 7
UO_MID == 14
UO_LONG == 28

\* ------------------------------------------------------------------ floats
NaN == <<"nan">>
PosInf == <<"inf", 1>>
NegInf == <<"inf", -1>>
Str == <<"str">>

Abs(x) == IF x < 0 THEN -x ELSE x

RECURSIVE GCD(_, _)
GCD(a, b) == IF b = 0 THEN a ELSE GCD(b, a % b)

\* The fraction n/d (d # 0) in lowest terms with a positive denominator.
Num(n, d) ==
    IF d = 1 THEN <<"num", n, 1>>
    ELSE LET g == GCD(Abs(n), Abs(d))
             s == IF d < 0 THEN -1 ELSE 1
         IN  <<"num", (s * n) \div g, (s * d) \div g>>

Flt(n) == <<"num", n, 1>>
IsNum(x) == x[1] = "num"
IsNaN(x) == x[1] = "nan"
IsInf(x) == x[1] = "inf"
IsStr(x) == x[1] = "str"
Sign(x) == IF IsInf(x) THEN x[2]
           ELSE IF x[2] > 0 THEN 1 ELSE IF x[2] < 0 THEN -1 ELSE 0

FNeg(x) ==
    IF IsNaN(x) THEN NaN
    ELSE IF IsInf(x) THEN <<"inf", -x[2]>>
    ELSE <<"num", -x[2], x[3]>>

FAdd(x, y) ==
    IF IsNaN(x) \/ IsNaN(y) THEN NaN
    ELSE IF IsInf(x) THEN (IF IsInf(y) /\ y[2] # x[2] THEN NaN ELSE x)
    ELSE IF IsInf(y) THEN y
    ELSE IF x[3] = y[3] THEN Num(x[2] + y[2], x[3])
    ELSE LET g == GCD(x[3], y[3])
         IN  Num(x[2] * (y[3] \div g) + y[2] * (x[3] \div g), (x[3] \div g) * y[3])

FSub(x, y) == FAdd(x, FNeg(y))

FMul(x, y) ==
    IF IsNaN(x) \/ IsNaN(y) THEN NaN
    ELSE IF IsInf(x) \/ IsInf(y)
         THEN (IF Sign(x) * Sign(y) = 0 THEN NaN ELSE <<"inf", Sign(x) * Sign(y)>>)
    ELSE IF x[3] = 1 /\ y[3] = 1 THEN <<"num", x[2] * y[2], 1>>
    ELSE LET a == Num(x[2], y[3])
             b == Num(y[2], x[3])
         IN  <<"num", a[2] * b[2], a[3] * b[3]>>

\* IEEE division: a finite nonzero value over zero is an infinity, 0/0 is NaN.
FDiv(x, y) ==
    IF IsNaN(x) \/ IsNaN(y) THEN NaN
    ELSE IF IsInf(x)
         THEN (IF IsInf(y) THEN NaN
               ELSE <<"inf", x[2] * (IF Sign(y) < 0 THEN -1 ELSE 1)>>)
    ELSE IF IsInf(y) THEN Flt(0)
    ELSE IF y[2] = 0 THEN (IF x[2] = 0 THEN NaN ELSE <<"inf", Sign(x)>>)
    ELSE FMul(x, Num(y[3], y[2]))

\* Comparisons of two fractions.
FLt(x, y) == x[2] * y[3] < y[2] * x[3]
FLe(x, y) == x[2] * y[3] <= y[2] * x[3]
FAbs(x) == IF IsNum(x) /\ x[2] < 0 THEN FNeg(x) ELSE x
FMin(x, y) == IF FLe(x, y) THEN x ELSE y
FMax(x, y) == IF FLe(x, y) THEN y ELSE x
IsZero(x) == IsNum(x) /\ x[2] = 0

\* ------------------------------------------------- pandas Series operations
\* Elementwise arithmetic of two aligned Series, and of a Series and a scalar.
SAdd(a, b) == [i \in 1..Len(a) |-> FAdd(a[i], b[i])]
SSub(a, b) == [i \in 1..Len(a) |-> FSub(a[i], b[i])]
SDiv(a, b) == [i \in 1..Len(a) |-> FDiv(a[i], b[i])]
SNeg(a) == [i \in 1..Len(a) |-> FNeg(a[i])]
SAbs(a) == [i \in 1..Len(a) |-> FAbs(a[i])]
SScale(k, a) == [i \in 1..Len(a) |-> FMul(k, a[i])]
SOver(a, k) == [i \in 1..Len(a) |-> FDiv(a[i], k)]

\* Series.shift(periods): the first `periods` positions are NaN.
Shift(s, periods) == [i \in 1..Len(s) |-> IF i <= periods THEN NaN ELSE s[i - periods]]

\* Faulty variant of Diff: the first difference is 0 instead of NaN.
DiffZeroFirst(s) ==
    [i \in 1..Len(s) |-> IF i = 1 THEN Flt(0) ELSE FSub(s[i], s[i - 1])]

\* Series.diff(): s - s.shift(1).
Diff(s) == SSub(s, Shift(s, 1))

\* Series.clip(lower=0) and Series.clip(upper=0); NaN stays NaN.
ClipLower0(s) == [i \in 1..Len(s) |-> IF IsNum(s[i]) /\ s[i][2] < 0 THEN Flt(0) ELSE s[i]]
ClipUpper0(s) == [i \in 1..Len(s) |-> IF IsNum(s[i]) /\ s[i][2] > 0 THEN Flt(0) ELSE s[i]]

\* Faulty variant of PctChange: the ratio, without the "- 1".
PctChangeRatio(s, periods) ==
    [i \in 1..Len(s) |-> FDiv(s[i], Shift(s, periods)[i])]

\* Series.pct_change(periods): s / s.shift(periods) - 1.
PctChange(s, periods) ==
    [i \in 1..Len(s) |-> FSub(FDiv(s[i], Shift(s, periods)[i]), Flt(1))]

RECURSIVE SumRange(_, _, _)
SumRange(s, lo, hi) == IF lo > hi THEN Flt(0) ELSE FAdd(s[lo], SumRange(s, lo + 1, hi))

RECURSIVE MinRange(_, _, _)
MinRange(s, lo, hi) == IF lo = hi THEN s[lo] ELSE FMin(s[lo], MinRange(s, lo + 1, hi))

RECURSIVE MaxRange(_, _, _)
MaxRange(s, lo, hi) == IF lo = hi THEN s[lo] ELSE FMax(s[lo], MaxRange(s, lo + 1, hi))

\* Faulty variant of WindowFull: one observation more than the window holds
\* is asked for.
WindowFullStrict(s, window, i) ==
    /\ i > window
    /\ \A j \in (i - window + 1)..i : IsNum(s[j])

\* Series.rolling(window): min_periods = window, and the window functions
\* read an infinity as NaN, so position i has a value only when it and the
\* window - 1 positions before it all hold finite numbers.
WindowFull(s, window, i) ==
    /\ i >= window
    /\ \A j \in (i - window + 1)..i : IsNum(s[j])

RollingSum(s, window) ==
    [i \in 1..Len(s) |->
        IF WindowFull(s, window, i) THEN SumRange(s, i - window + 1, i) ELSE NaN]

RollingMean(s, window) ==
    [i \in 1..Len(s) |->
        IF WindowFull(s, window, i)
        THEN FDiv(SumRange(s, i - window + 1, i), Flt(window)) ELSE NaN]

RollingMin(s, window) ==
    [i \in 1..Len(s) |->
        IF WindowFull(s, window, i) THEN MinRange(s, i - window + 1, i) ELSE NaN]

RollingMax(s, window) ==
    [i \in 1..Len(s) |->
        IF WindowFull(s, window, i) THEN MaxRange(s, i - window + 1, i) ELSE NaN]

\* rolling(window).apply(lambda x: np.mean(np.abs(x - x.mean())), raw=True)
RollingMad(s, window) ==
    [i \in 1..Len(s) |->
        IF WindowFull(s, window, i)
        THEN LET lo == i - window + 1
                 m == FDiv(SumRange(s, lo, i), Flt(window))
                 dev == [j \in 1..i |-> IF j < lo THEN Flt(0) ELSE FAbs(FSub(s[j], m))]
             IN  FDiv(SumRange(dev, lo, i), Flt(window))
        ELSE NaN]

\* One step of ewm(span, adjust=False).mean(): alpha = 2 / (span + 1).  The
\* average starts at the first observation that is not NaN, a NaN
\* observation leaves it as it is, and an observation equal to the average
\* leaves it exactly there.
EwmStep(prev, cur, span) ==
    IF IsNaN(prev) THEN cur
    ELSE IF IsNaN(cur) \/ prev = cur THEN prev
    ELSE FAdd(FMul(Num(span - 1, span + 1), prev), FMul(Num(2, span + 1), cur))

RECURSIVE EwmUpTo(_, _, _)
EwmUpTo(s, span, n) ==
    IF n = 0 THEN <<>>
    ELSE IF n = 1 THEN <<s[1]>>
    ELSE LET p == EwmUpTo(s, span, n - 1)
         IN  Append(p, EwmStep(p[n - 1], s[n], span))

Ewm(s, span) == EwmUpTo(s, span, Len(s))

\* pd.concat([a, b], axis=1).min(axis=1) and .max(axis=1): the row-wise
\* minimum and maximum of two aligned Series, NaN skipped.
RowMin(a, b) ==
    [i \in 1..Len(a) |->
        IF IsNaN(a[i]) THEN b[i] ELSE IF IsNaN(b[i]) THEN a[i] ELSE FMin(a[i], b[i])]
RowMax(a, b) ==
    [i \in 1..Len(a) |->
        IF IsNaN(a[i]) THEN b[i] ELSE IF IsNaN(b[i]) THEN a[i] ELSE FMax(a[i], b[i])]

\* -------------------------------------------------------------- DataFrames
\* A DataFrame: its number of rows, its column names in order and, per
\* column, the Series of its cells.
PriceColumns == <<"Close", "High", "Low">>
IndicatorColumns ==
    <<"RSI", "MACD", "MACD_Signal", "Stoch_%K", "Stoch_%D", "ROC", "Momentum",
      "Williams_%R", "TSI", "AO", "CCI", "CMO", "UO">>
Range(seq) == {seq[i] : i \in 1..Len(seq)}

\* pd.DataFrame(): no rows and no columns.
EmptyDataFrame == [index |-> 0, columns |-> <<>>, col |-> [c \in {} |-> <<>>]]

\* DataFrame.empty: any axis of length 0.
Empty(f) == f.index = 0 \/ Len(f.columns) = 0

\* data[name] = series: a new column goes last, an existing one is replaced.
SetColumn(f, name, series) ==
    [index |-> f.index,
     columns |-> IF name \in Range(f.columns) THEN f.columns ELSE Append(f.columns, name),
     col |-> [c \in Range(f.columns) \cup {name} |-> IF c = name THEN series ELSE f.col[c]]]

\* Arithmetic on a column that holds a cell which is not a number raises.
Raises(f, names) == \E c \in names : \E i \in 1..f.index : IsStr(f.col[c][i])

\* ------------------------------------------ the formulas of compute_indicators
\* Faulty variant of loss: the negation is missing.
loss_unsigned(delta) == ClipUpper0(delta)

gain(delta) == ClipLower0(delta)
loss(delta) == SNeg(ClipUpper0(delta))
rs(avg_gain, avg_loss) == SDiv(avg_gain, avg_loss)
RSI(avg_gain, avg_loss) ==
    LET r == rs(avg_gain, avg_loss)
    IN  [i \in 1..Len(r) |-> FSub(Flt(100), FDiv(Flt(100), FAdd(Flt(1), r[i])))]

MACD(close) == SSub(Ewm(close, EMA_FAST), Ewm(close, EMA_SLOW))
MACD_Signal(macd) == Ewm(macd, EMA_SIGNAL)

\* Faulty variant of low_14: the window ends one row before the current one.
low_14_prev(low) == Shift(RollingMin(low, STOCH_WINDOW), 1)

low_14(low) == RollingMin(low, STOCH_WINDOW)
high_14(high) == RollingMax(high, STOCH_WINDOW)
Stoch_K(close, l14, h14) == SDiv(SScale(Flt(100), SSub(close, l14)), SSub(h14, l14))
Stoch_D(k) == RollingMean(k, STOCH_D_WINDOW)

ROC(close) == SScale(Flt(100), PctChange(close, ROC_PERIODS))
Momentum(close) == SSub(close, Shift(close, MOMENTUM_PERIODS))
Williams_R(close, l14, h14) == SDiv(SScale(Flt(-100), SSub(h14, close)), SSub(h14, l14))

double_smoothed(s) == Ewm(Ewm(s, TSI_LONG), TSI_SHORT)
TSI(price_change) ==
    SScale(Flt(100), SDiv(double_smoothed(price_change), double_smoothed(SAbs(price_change))))

median_price(high, low) == SOver(SAdd(high, low), Flt(2))
AO(mp) == SSub(RollingMean(mp, AO_FAST), RollingMean(mp, AO_SLOW))

typical_price(high, low, close) == SOver(SAdd(SAdd(high, low), close), Flt(3))
mad(tp) == RollingMad(tp, CCI_WINDOW)
CCI(tp, m) == SDiv(SSub(tp, RollingMean(tp, CCI_WINDOW)), SScale(Num(15, 1000), m))

gain_cmo(delta) == RollingSum(ClipLower0(delta), CMO_WINDOW)
loss_cmo(delta) == SNeg(RollingSum(ClipUpper0(delta), CMO_WINDOW))
CMO(g, l) == SDiv(SScale(Flt(100), SSub(g, l)), SAdd(g, l))

prev_close(close) == Shift(close, 1)
bp(close, low) == SSub(close, RowMin(low, prev_close(close)))
tr(close, high, low) ==
    SSub(RowMax(high, prev_close(close)), RowMin(low, prev_close(close)))
avg(b, t, window) == SDiv(RollingSum(b, window), RollingSum(t, window))
UO(b, t) ==
    SOver(SScale(Flt(100),
                 SAdd(SAdd(SScale(Flt(4), avg(b, t, UO_SHORT)),
                           SScale(Flt(2), avg(b, t, UO_MID))),
                      avg(b, t, UO_LONG))),
          Flt(7))

\* ------------------------------------------------------------------- state
VARIABLES
    heap,      \* the DataFrame objects; heap[1] is the caller's series
    pc,        \* the statement about to run
    data,      \* compute_indicators: the object its name `data` is bound to
    locals,    \* compute_indicators: the intermediate Series it keeps
    df,        \* analyze_momentum: the object compute_indicators returned
    summary,   \* the mapping analyze_momentum returned, as (key, value) pairs
    exc,       \* the exception raised inside compute_indicators, if any
    tail,      \* rows appended after the constant run of the batch
    orig       \* the caller's series as it was when it made the call

vars == <<heap, pc, data, locals, df, summary, exc, tail, orig>>

Caller == 1
None == <<"none">>

\* A row is (Close, High, Low) over the prices, with Low <= High.
Rows ==
    {r \in (0..MaxPrice) \X (0..MaxPrice) \X (0..MaxPrice) : r[3] <= r[2]}

\* The rows after the constant run move the close alone, or the whole row,
\* by one.  There are at most two of them: the exact fractions of the
\* exponential averages then stay within TLC's integers.
Moves == {<<1, 0, 0>>, <<-1, 0, 0>>, <<1, 1, 1>>, <<-1, -1, -1>>}
TailRows == {1, 2}

\* The batch lengths handed to the engine: the short ones, those at the edge
\* of the 14-sample windows, and those from the largest window on.
CallLens == (0..ShortLen) \cup {RSI_WINDOW, RSI_WINDOW + 1} \cup (AO_SLOW..MaxLen)

NoLocals ==
    [delta |-> <<>>, avg_gain |-> <<>>, avg_loss |-> <<>>, low_14 |-> <<>>,
     high_14 |-> <<>>, mad |-> <<>>, gain_cmo |-> <<>>, loss_cmo |-> <<>>,
     tr |-> <<>>]

Init ==
    /\ heap = <<[index |-> 0, columns |-> PriceColumns,
                 col |-> [c \in Range(PriceColumns) |-> <<>>]]>>
    /\ pc = "build"
    /\ data = 0
    /\ locals = NoLocals
    /\ df = 0
    /\ summary = {}
    /\ exc = "none"
    /\ tail = 0
    /\ orig = None

Cell(r, c) == Flt(IF c = "Close" THEN r[1] ELSE IF c = "High" THEN r[2] ELSE r[3])
LastRow(f) == <<f.col["Close"][f.index][2], f.col["High"][f.index][2], f.col["Low"][f.index][2]>>
WithRow(f, r) ==
    [index |-> f.index + 1, columns |-> f.columns,
     col |-> [c \in Range(f.columns) |-> Append(f.col[c], Cell(r, c))]]

\* ------------------------------------------------------ the caller's batch
\* The batch grows by one more row of its constant run.
AppendRow ==
    /\ pc = "build" /\ tail = 0 /\ heap[Caller].index < MaxLen
    /\ \E r \in Rows :
        /\ heap[Caller].index > 0 => r = LastRow(heap[Caller])
        /\ heap' = [heap EXCEPT ![Caller] = WithRow(@, r)]
    /\ UNCHANGED <<pc, data, locals, df, summary, exc, tail, orig>>

\* The batch grows by a row that moves away from the one before it.
AppendMove ==
    /\ pc = "build" /\ heap[Caller].index > 0 /\ heap[Caller].index < MaxLen
    /\ tail + 1 \in TailRows
    /\ \E m \in Moves :
        LET l == LastRow(heap[Caller])
            r == <<l[1] + m[1], l[2] + m[2], l[3] + m[3]>>
        IN  /\ r \in Rows
            /\ heap' = [heap EXCEPT ![Caller] = WithRow(@, r)]
    /\ tail' = tail + 1
    /\ UNCHANGED <<pc, data, locals, df, summary, exc, orig>>

\* The batch, a constant run so far, arrives without one of the price columns.
DropColumn ==
    /\ pc = "build" /\ tail = 0 /\ heap[Caller].index \in CallLens
    /\ \E c \in Range(PriceColumns) :
        heap' = [heap EXCEPT ![Caller] =
                    [index |-> @.index,
                     columns |-> SelectSeq(@.columns, LAMBDA x : x # c),
                     col |-> [x \in Range(@.columns) \ {c} |-> @.col[x]]]]
    /\ pc' = "ready"
    /\ UNCHANGED <<data, locals, df, summary, exc, tail, orig>>

\* The batch, a constant run so far, arrives with a cell of its last row that
\* is not a number.
PutText ==
    /\ pc = "build" /\ tail = 0
    /\ heap[Caller].index \in CallLens /\ heap[Caller].index > 0
    /\ \E c \in Range(PriceColumns) :
        heap' = [heap EXCEPT ![Caller].col[c][heap[Caller].index] = Str]
    /\ pc' = "ready"
    /\ UNCHANGED <<data, locals, df, summary, exc, tail, orig>>

\* analyze_momentum(data) calls compute_indicators(data).
Call ==
    /\ pc \in {"build", "ready"} /\ heap[Caller].index \in CallLens
    /\ data' = Caller
    /\ orig' = heap[Caller]
    /\ pc' = "copy"
    /\ UNCHANGED <<heap, locals, df, summary, exc, tail>>

\* ------------------------------------------------------ compute_indicators
\* Faulty variant of Caught: `except ValueError`.
CaughtValueErrorOnly(e) == e = "ValueError"

\* `except Exception` takes every exception the body can raise.
Caught(e) == e \in {"ValueError", "TypeError"}

Raise(e) ==
    /\ pc' = IF Caught(e) THEN "except" ELSE "raised"
    /\ exc' = e

\* Faulty variant of CopyRef: no copy, the name stays bound to the caller's object.
CopyRefAlias(h, ref) == ref

\* DataFrame.copy(): a new object with the same cells.
CopyRef(h, ref) == Len(h) + 1

\* data = data.copy()
Copy ==
    /\ pc = "copy"
    /\ heap' = Append(heap, heap[data])
    /\ data' = CopyRef(heap, data)
    /\ pc' = "check"
    /\ UNCHANGED <<locals, df, summary, exc, tail, orig>>

\* Faulty variant of HasPriceColumns: "Open" is asked for as well.
HasPriceColumnsAndOpen(f) ==
    \A c \in Range(PriceColumns) \cup {"Open"} : c \in Range(f.columns)

HasPriceColumns(f) == \A c \in Range(PriceColumns) : c \in Range(f.columns)

\* if not all(col in data.columns ...): raise ValueError(...)
CheckColumns ==
    /\ pc = "check"
    /\ IF HasPriceColumns(heap[data])
       THEN pc' = "RSI" /\ exc' = exc
       ELSE Raise("ValueError")
    /\ UNCHANGED <<heap, data, locals, df, summary, tail, orig>>

\* The statements that compute one indicator column from the columns `reads`.
Step(name, next, reads, series, kept) ==
    /\ pc = name
    /\ IF Raises(heap[data], reads)
       THEN /\ Raise("TypeError")
            /\ UNCHANGED <<heap, locals>>
       ELSE /\ heap' = [heap EXCEPT ![data] = SetColumn(@, name, series)]
            /\ locals' = kept
            /\ pc' = next
            /\ exc' = exc
    /\ UNCHANGED <<data, df, summary, tail, orig>>

Col(name) == heap[data].col[name]

ComputeRSI ==
    LET delta == Diff(Col("Close"))
        avg_gain == RollingMean(gain(delta), RSI_WINDOW)
        avg_loss == RollingMean(loss(delta), RSI_WINDOW)
    IN  Step("RSI", "MACD", {"Close"}, RSI(avg_gain, avg_loss),
             [locals EXCEPT !.delta = delta, !.avg_gain = avg_gain, !.avg_loss = avg_loss])

ComputeMACD ==
    Step("MACD", "MACD_Signal", {"Close"}, MACD(Col("Close")), locals)

ComputeMACDSignal ==
    Step("MACD_Signal", "Stoch_%K", {"MACD"}, MACD_Signal(Col("MACD")), locals)

ComputeStochK ==
    LET l14 == low_14(Col("Low"))
        h14 == high_14(Col("High"))
    IN  Step("Stoch_%K", "Stoch_%D", {"Low", "High", "Close"},
             Stoch_K(Col("Close"), l14, h14),
             [locals EXCEPT !.low_14 = l14, !.high_14 = h14])

ComputeStochD ==
    Step("Stoch_%D", "ROC", {"Stoch_%K"}, Stoch_D(Col("Stoch_%K")), locals)

ComputeROC ==
    Step("ROC", "Momentum", {"Close"}, ROC(Col("Close")), locals)

ComputeMomentum ==
    Step("Momentum", "Williams_%R", {"Close"}, Momentum(Col("Close")), locals)

ComputeWilliamsR ==
    Step("Williams_%R", "TSI", {"Close"},
         Williams_R(Col("Close"), locals.low_14, locals.high_14), locals)

ComputeTSI ==
    Step("TSI", "AO", {"Close"}, TSI(Diff(Col("Close"))), locals)

ComputeAO ==
    Step("AO", "CCI", {"High", "Low"}, AO(median_price(Col("High"), Col("Low"))), locals)

ComputeCCI ==
    LET tp == typical_price(Col("High"), Col("Low"), Col("Close"))
        m == mad(tp)
    IN  Step("CCI", "CMO", {"High", "Low", "Close"}, CCI(tp, m),
             [locals EXCEPT !.mad = m])

ComputeCMO ==
    LET g == gain_cmo(locals.delta)
        l == loss_cmo(locals.delta)
    IN  Step("CMO", "UO", {}, CMO(g, l),
             [locals EXCEPT !.gain_cmo = g, !.loss_cmo = l])

ComputeUO ==
    LET b == bp(Col("Close"), Col("Low"))
        t == tr(Col("Close"), Col("High"), Col("Low"))
    IN  Step("UO", "return", {"Close", "High", "Low"}, UO(b, t),
             [locals EXCEPT !.tr = t])

\* return data
Return ==
    /\ pc = "return"
    /\ df' = data
    /\ pc' = "analyze"
    /\ UNCHANGED <<heap, data, locals, summary, exc, tail, orig>>

\* except Exception as e: ... return pd.DataFrame()
Except ==
    /\ pc = "except"
    /\ heap' = Append(heap, EmptyDataFrame)
    /\ df' = Len(heap) + 1
    /\ pc' = "analyze"
    /\ UNCHANGED <<data, locals, summary, exc, tail, orig>>

\* -------------------------------------------------------- analyze_momentum
\* latest.get(key): the cell of the last row, None when there is no such column.
Get(f, key) == IF key \in Range(f.columns) THEN f.col[key][f.index] ELSE None

\* if df.empty: return {} ; latest = df.iloc[-1] ; return {...}
Analyze ==
    /\ pc = "analyze"
    /\ summary' = IF Empty(heap[df]) THEN {}
                  ELSE {<<k, Get(heap[df], k)>> : k \in Range(IndicatorColumns)}
    /\ pc' = "done"
    /\ UNCHANGED <<heap, data, locals, df, exc, tail, orig>>

Next ==
    \/ AppendRow \/ AppendMove \/ DropColumn \/ PutText \/ Call
    \/ Copy \/ CheckColumns
    \/ ComputeRSI \/ ComputeMACD \/ ComputeMACDSignal \/ ComputeStochK
    \/ ComputeStochD \/ ComputeROC \/ ComputeMomentum \/ ComputeWilliamsR
    \/ ComputeTSI \/ ComputeAO \/ ComputeCCI \/ ComputeCMO \/ ComputeUO
    \/ Return \/ Except \/ Analyze

Spec == Init /\ [][Next]_vars

\* -------------------------------------------------------------- properties
Finished == pc = "done"
Succeeded == Finished /\ exc = "none"
Out == heap[df]
OutCol(k) == heap[df].col[k]
Last(k) == heap[df].col[k][heap[df].index]
Keys(m) == {p[1] : p \in m}
Max(a, b) == IF a >= b THEN a ELSE b

Complete(f) == Range(PriceColumns) \subseteq Range(f.columns)
NonNumeric(f) == \E c \in Range(f.columns) : \E i \in 1..f.index : IsStr(f.col[c][i])
Numeric(f) == Complete(f) /\ ~NonNumeric(f)
FailingInput(f) == f.index = 0 \/ ~Complete(f) \/ NonNumeric(f)
PartiallyFilled(f) ==
    LET have == Range(f.columns) \cap Range(IndicatorColumns)
    IN  have # {} /\ have # Range(IndicatorColumns)
InRange(x, lo, hi) == IsNum(x) /\ FLe(Flt(lo), x) /\ FLe(x, Flt(hi))
Inside(x, lo, hi) == IsNum(x) /\ FLt(Flt(lo), x) /\ FLt(x, Flt(hi))
PositiveRange(f) == \A i \in 1..f.index : FLt(f.col["Low"][i], f.col["High"][i])
ValidBars(f) ==
    \A i \in 1..f.index :
        FLe(f.col["Low"][i], f.col["Close"][i]) /\ FLe(f.col["Close"][i], f.col["High"][i])
Flat(f) ==
    /\ Numeric(f) /\ f.index >= 1
    /\ \A i \in 1..f.index :
        /\ f.col["Close"][i] = f.col["Close"][1]
        /\ f.col["High"][i] = f.col["Close"][1]
        /\ f.col["Low"][i] = f.col["Close"][1]
\* The close fell, or moved, at one of the 14 steps that end at position i.
LossIn(f, i) ==
    \E j \in Max(2, i - RSI_WINDOW + 1)..i : FLt(f.col["Close"][j], f.col["Close"][j - 1])
ChangeIn(f, i) ==
    \E j \in Max(2, i - RSI_WINDOW + 1)..i : f.col["Close"][j] # f.col["Close"][j - 1]

\* C1: compute_indicators and analyze_momentum never raise to the caller; on
\* an input with zero rows, on one missing Close, High or Low, and on one on
\* which a formula fails, compute_indicators returns an empty result, never
\* a partially filled one, and analyze_momentum returns the empty mapping.
C1_EmptyOnFailure ==
    /\ pc # "raised"
    /\ (pc \in {"analyze", "done"} /\ FailingInput(orig))
         => (Empty(Out) /\ ~PartiallyFilled(Out))
    /\ (pc \in {"analyze", "done"} /\ (~Complete(orig) \/ NonNumeric(orig)))
         => Out = EmptyDataFrame
    /\ (Finished /\ FailingInput(orig)) => summary = {}

\* A formula failed after the working copy had received its first columns.
C1_Witness ==
    /\ Finished /\ exc = "TypeError"
    /\ "RSI" \in Range(heap[data].columns)
    /\ Out = EmptyDataFrame /\ summary = {}

\* C2: on the success path and on every failure path the caller's series is
\* left as it was, and the enriched result is another, new object.
C2_CallerSeriesUnchanged ==
    pc \notin {"build", "ready"} =>
        /\ heap[Caller] = orig
        /\ pc # "copy" => data # Caller
        /\ df # 0 => df # Caller

C2_Witness ==
    /\ Succeeded /\ orig.index > 0
    /\ Out.columns = PriceColumns \o IndicatorColumns
    /\ heap[Caller].columns = PriceColumns

\* C3: the mapping of analyze_momentum is empty or has exactly the 13 keys,
\* each value being the finite last-row value of its indicator or, when that
\* value is not finite (an infinity included), the undefined marker.
C3_SummaryFiniteOrMarker ==
    Finished =>
        \/ summary = {}
        \/ /\ Keys(summary) = Range(IndicatorColumns)
           /\ Cardinality(summary) = Len(IndicatorColumns)
           /\ \A p \in summary :
                IF IsNum(Get(Out, p[1])) THEN p[2] = Get(Out, p[1]) ELSE p[2] = NaN

C5_ZeroDenominatorUndefined ==
    Succeeded =>
        \A i \in 1..Out.index :
            /\ IsZero(locals.avg_loss[i]) => IsNaN(OutCol("RSI")[i])
            /\ IsZero(FSub(locals.high_14[i], locals.low_14[i])) =>
                 (IsNaN(OutCol("Stoch_%K")[i]) /\ IsNaN(OutCol("Williams_%R")[i]))
            /\ IsZero(locals.mad[i]) => IsNaN(OutCol("CCI")[i])
            /\ IsZero(FAdd(locals.gain_cmo[i], locals.loss_cmo[i])) =>
                 IsNaN(OutCol("CMO")[i])
            /\ (\E w \in {UO_SHORT, UO_MID, UO_LONG} :
                    WindowFull(locals.tr, w, i)
                    /\ IsZero(SumRange(locals.tr, i - w + 1, i))) =>
                 IsNaN(OutCol("UO")[i])

LongPositiveRange ==
    /\ Finished /\ Numeric(orig) /\ orig.index >= AO_SLOW /\ PositiveRange(orig)

\* C6 (as claimed): on a series of 34 or more rows with High > Low at every
\* step, each of the 13 columns is finite at the last row.
C6_AllFiniteAtLastRow ==
    LongPositiveRange => \A k \in Range(IndicatorColumns) : IsNum(Last(k))

\* C6 (amended): on such a series MACD, MACD_Signal, Stoch_%K, Stoch_%D,
\* Momentum, Williams_%R, AO and UO are finite at the last row, and RSI, ROC,
\* TSI, CCI and CMO are finite there whenever their denominator is nonzero.
C6_FiniteWhereDenominatorNonzero ==
    LongPositiveRange =>
        LET n == Out.index
        IN  /\ \A k \in {"MACD", "MACD_Signal", "Stoch_%K", "Stoch_%D", "Momentum",
                           "Williams_%R", "AO", "UO"} : IsNum(Last(k))
            /\ ~IsZero(locals.avg_loss[n]) => IsNum(Last("RSI"))
            /\ ~IsZero(orig.col["Close"][n - ROC_PERIODS]) => IsNum(Last("ROC"))
            /\ ~IsZero(double_smoothed(SAbs(locals.delta))[n]) => IsNum(Last("TSI"))
            /\ ~IsZero(locals.mad[n]) => IsNum(Last("CCI"))
            /\ ~IsZero(FAdd(locals.gain_cmo[n], locals.loss_cmo[n])) => IsNum(Last("CMO"))

C6_Witness ==
    /\ LongPositiveRange /\ orig.index = AO_SLOW
    /\ \A k \in Range(IndicatorColumns) : IsNum(Last(k))

FlatUndefined(i) ==
    /\ IsNaN(OutCol("Stoch_%K")[i]) /\ IsNaN(OutCol("Stoch_%D")[i])
    /\ IsNaN(OutCol("Williams_%R")[i])
    /\ IsNaN(OutCol("CCI")[i]) /\ IsNaN(OutCol("CMO")[i])
FlatZero(i) ==
    /\ OutCol("MACD")[i] = Flt(0) /\ OutCol("MACD_Signal")[i] = Flt(0)
    /\ i > MOMENTUM_PERIODS => OutCol("Momentum")[i] = Flt(0)
    /\ i >= AO_SLOW => OutCol("AO")[i] = Flt(0)

C8_RSIBounded ==
    Succeeded =>
        \A i \in 1..Out.index :
            LET r == OutCol("RSI")[i]
                g == locals.avg_gain[i]
                l == locals.avg_loss[i]
            IN  /\ IsNaN(r) \/ InRange(r, 0, 100)
                /\ (IsNum(g) /\ IsNum(l) /\ IsZero(g) # IsZero(l)) => InRange(r, 0, 100)

C8_Witness ==
    /\ Succeeded
    /\ \E i \in 1..Out.index : OutCol("RSI")[i] = Flt(100)
    /\ \E i \in 1..Out.index : Inside(OutCol("RSI")[i], 0, 100)

StochBounded ==
    \A i \in 1..Out.index :
        /\ IsNaN(OutCol("Stoch_%K")[i]) \/ InRange(OutCol("Stoch_%K")[i], 0, 100)
        /\ IsNaN(OutCol("Stoch_%D")[i]) \/ InRange(OutCol("Stoch_%D")[i], 0, 100)
        /\ IsNaN(OutCol("Williams_%R")[i]) \/ InRange(OutCol("Williams_%R")[i], -100, 0)

\* C9 (as claimed): on every accepted series with High > Low at every step,
\* Low <= Close <= High not being required, every defined Stoch_%K and
\* Stoch_%D lies in [0, 100] and every defined Williams_%R in [-100, 0].
C9_StochBoundedPositiveRange ==
    (Finished /\ Numeric(orig) /\ PositiveRange(orig)) => StochBounded

\* C9 (amended): the bounds hold on every accepted series with High > Low and
\* Low <= Close <= High at every step.
C9_StochBoundedValidBars ==
    (Finished /\ Numeric(orig) /\ PositiveRange(orig) /\ ValidBars(orig)) => StochBounded

C9_Witness ==
    /\ Finished /\ Numeric(orig) /\ PositiveRange(orig) /\ ValidBars(orig)
    /\ orig.index > STOCH_WINDOW + STOCH_D_WINDOW
    /\ Inside(Last("Stoch_%K"), 0, 100) /\ Inside(Last("Stoch_%D"), 0, 100)
    /\ Inside(Last("Williams_%R"), -100, 0)
    /\ Last("Stoch_%K") # Last("Stoch_%D")

\* What the warm-up claims share: Stochastic %K and Williams %R (14), CCI
\* (20) and AO (34) are undefined at the first N - 1 positions and defined
\* from position N on wherever their denominator is nonzero.
WindowWarmup(i) ==
    /\ i < STOCH_WINDOW =>
         (IsNaN(OutCol("Stoch_%K")[i]) /\ IsNaN(OutCol("Williams_%R")[i]))
    /\ i < CCI_WINDOW => IsNaN(OutCol("CCI")[i])
    /\ i < AO_SLOW => IsNaN(OutCol("AO")[i])
    /\ (i >= STOCH_WINDOW /\ ~IsZero(FSub(locals.high_14[i], locals.low_14[i]))) =>
         (IsNum(OutCol("Stoch_%K")[i]) /\ IsNum(OutCol("Williams_%R")[i]))
    /\ (i >= CCI_WINDOW /\ ~IsZero(locals.mad[i])) => IsNum(OutCol("CCI")[i])
    /\ i >= AO_SLOW => IsNum(OutCol("AO")[i])

\* C10 (as claimed): RSI and CMO (N = 14) too are undefined at exactly the
\* first N - 1 positions, and defined from position N on wherever their
\* denominator is nonzero.
C10_WarmupWindowMinusOne ==
    (Succeeded /\ Numeric(orig)) =>
        \A i \in 1..Out.index :
            /\ WindowWarmup(i)
            /\ i < RSI_WINDOW => (IsNaN(OutCol("RSI")[i]) /\ IsNaN(OutCol("CMO")[i]))
            /\ (i >= RSI_WINDOW /\ LossIn(orig, i)) => IsNum(OutCol("RSI")[i])
            /\ (i >= CMO_WINDOW /\ ChangeIn(orig, i)) => IsNum(OutCol("CMO")[i])

\* C10 (amended): RSI and CMO average the 14 latest close-to-close changes,
\* of which the first row has none: they are undefined at the first 14
\* positions and defined from position 15 on wherever their denominator is
\* nonzero.
C10_WarmupOfChanges ==
    (Succeeded /\ Numeric(orig)) =>
        \A i \in 1..Out.index :
            /\ WindowWarmup(i)
            /\ i <= RSI_WINDOW => (IsNaN(OutCol("RSI")[i]) /\ IsNaN(OutCol("CMO")[i]))
            /\ (i > RSI_WINDOW /\ LossIn(orig, i)) => IsNum(OutCol("RSI")[i])
            /\ (i > CMO_WINDOW /\ ChangeIn(orig, i)) => IsNum(OutCol("CMO")[i])

C10_Witness ==
    /\ Succeeded /\ Numeric(orig) /\ orig.index > RSI_WINDOW
    /\ LossIn(orig, RSI_WINDOW)
    /\ IsNaN(OutCol("RSI")[RSI_WINDOW]) /\ IsNum(OutCol("RSI")[RSI_WINDOW + 1])
    /\ IsNaN(OutCol("CMO")[CMO_WINDOW]) /\ IsNum(OutCol("CMO")[CMO_WINDOW + 1])

====
